---- MODULE Spec2Model ----
(***************************************************************************)
(* Model of src/app.py: the Streamlit script that reads an uploaded       *)
(* CSV/Excel file, profiles it (analyze_data), and on a button click       *)
(* renders charts (create_visualizations) and lays out a PDF               *)
(* (generate_pdf_report).  One script run is a walk of pc from "read" to   *)
(* "idle"; every widget interaction of the user starts a new run.          *)
(*                                                                         *)
(* Text is a TLA+ string (a sequence of characters).  A cell is a record   *)
(* [k, n, s]: k is its kind ("int", "float", "bool", "str", "nan"), n its  *)
(* numeric value (a float cell holds the whole number n.0, a bool cell 1   *)
(* or 0) and s its text.                                                   *)
(***************************************************************************)
EXTENDS Integers, Sequences, FiniteSets, TLC

\* ---------------------------------------------------------------- bounds
MaxCols == 4
MaxRows == 11

\* ------------------------------------------------------ program constants
PreviewRows == 10     \* df.head(10)
TruncLimit == 20      \* str(cell)[:20]
BarRows == 10         \* df.index[:10]
LineRows == 20        \* df[:20]
StatsCols == 3        \* list(...items())[:3]
PageWidth == 612      \* letter[0], in points
LeftMargin == 72
RightMargin == 72
ColPad == 20          \* "- 20" in col_widths

\* --------------------------------------------------------------- helpers
None == <<>>
Some(x) == <<x>>
Min(a, b) == IF a < b THEN a ELSE b

RECURSIVE DigitsOf(_)
DigitsOf(n) ==
    LET d == SubSeq("0123456789", (n % 10) + 1, (n % 10) + 1)
    IN IF n < 10 THEN d ELSE DigitsOf(n \div 10) \o d

\* str(n) of a Python int
IntStr(n) == IF n < 0 THEN "-" \o DigitsOf(-n) ELSE DigitsOf(n)

\* str(cell) of a value held in a DataFrame
Str(cell) ==
    CASE cell.k = "int"   -> IntStr(cell.n)
      [] cell.k = "float" -> IntStr(cell.n) \o ".0"
      [] cell.k = "bool"  -> IF cell.n = 1 THEN "True" ELSE "False"
      [] cell.k = "nan"   -> "nan"
      [] OTHER            -> cell.s

RECURSIVE Join(_, _)
\* sep.join(names)
Join(sep, names) ==
    IF names = <<>> THEN ""
    ELSE IF Len(names) = 1 THEN names[1]
    ELSE names[1] \o sep \o Join(sep, Tail(names))

RECURSIVE SelectIdx(_, _, _)
\* the indices i in 1..n, in order, for which keep[i] holds
SelectIdx(keep, i, n) ==
    IF i > n THEN <<>>
    ELSE (IF keep[i] THEN <<i>> ELSE <<>>) \o SelectIdx(keep, i + 1, n)

\* ------------------------------------------------------- uploaded files
IntCell(n) == [k |-> "int", n |-> n, s |-> ""]
FloatCell(n) == [k |-> "float", n |-> n, s |-> ""]
BoolCell(b) == [k |-> "bool", n |-> IF b THEN 1 ELSE 0, s |-> ""]
StrCell(s) == [k |-> "str", n |-> 0, s |-> s]
NaN == [k |-> "nan", n |-> 0, s |-> ""]

\* The columns a test file may hold: a name and the cell of each row i.
ColumnPool == <<
    [name |-> "Sales",
     cell |-> [i \in 1..(MaxRows + 1) |-> IntCell(15 - 4 * i)]],
    [name |-> "Revenue",
     cell |-> [i \in 1..(MaxRows + 1) |->
                  IF i % 3 = 0 THEN NaN ELSE FloatCell(1000 * i)]],
    [name |-> "Product",
     cell |-> [i \in 1..(MaxRows + 1) |->
                  CASE i % 4 = 1 -> StrCell("Laptop")
                    [] i % 4 = 2 -> StrCell("Ultra_Wide_Monitor_X")
                    [] i % 4 = 3 -> StrCell("Ultra_Wide_Monitor_XL")
                    [] OTHER     -> NaN]],
    [name |-> "Active",
     cell |-> [i \in 1..(MaxRows + 1) |-> BoolCell(i % 2 = 1)]],
    [name |-> "Customer_Feedback_Comment",
     cell |-> [i \in 1..(MaxRows + 1) |->
                  IF i = 2 THEN StrCell("arrived late, box damaged, refund asked")
                  ELSE StrCell("ok")]],
    [name |-> "Units",
     cell |-> [i \in 1..(MaxRows + 1) |-> IntCell(i)]],
    [name |-> "Score",
     cell |-> [i \in 1..(MaxRows + 1) |-> IntCell(100 * i)]]
>>

\* The sheet with the pool's columns picked by keep (in pool order), r rows.
Sheet(keep, r) ==
    LET idx == SelectIdx(keep, 1, Len(ColumnPool))
    IN [c \in 1..Len(idx) |->
          [name |-> ColumnPool[idx[c]].name,
           cells |-> [i \in 1..r |-> ColumnPool[idx[c]].cell[i]]]]

Picks ==
    {keep \in [1..Len(ColumnPool) -> BOOLEAN] :
        Cardinality({i \in 1..Len(ColumnPool) : keep[i]}) <= MaxCols}

\* An uploaded file: its extension, whether its bytes can be parsed at all,
\* and the sheet its bytes hold (a sheet without columns has no rows).
Files ==
    {f \in [ext : {"csv", "xlsx"}, readable : BOOLEAN,
            sheet : {Sheet(keep, 0) : keep \in Picks}, nrows : {0}] :
        f.readable \/ f.sheet = <<>>}
    \cup {[ext |-> e, readable |-> TRUE, sheet |-> Sheet(keep, r), nrows |-> r] :
             e \in {"csv", "xlsx"},
             keep \in {k \in Picks : \E i \in DOMAIN k : k[i]},
             r \in 1..MaxRows}

\* ------------------------------------------------- pandas: reading a file
NumberDtypes == {"int64", "float64"}

\* The dtype pandas infers for a column from its cells.
InferDtype(cells) ==
    LET kinds == {cells[i].k : i \in DOMAIN cells}
    IN CASE cells = <<>>                      -> "object"
         [] kinds = {"int"}                   -> "int64"
         [] kinds \subseteq {"int", "float", "nan"} -> "float64"
         [] kinds = {"bool"}                  -> "bool"
         [] OTHER                             -> "object"

\* A cell as held in a column of the given dtype (float64 holds ints as floats).
AsDtype(cell, dtype) ==
    IF dtype = "float64" /\ cell.k = "int" THEN FloatCell(cell.n) ELSE cell

\* The DataFrame of a sheet: per column its name, dtype and cells.
Frame(sheet, r) ==
    [columns |->
        [c \in DOMAIN sheet |->
            LET dt == InferDtype(sheet[c].cells)
            IN [name |-> sheet[c].name,
                dtype |-> dt,
                cells |-> [i \in DOMAIN sheet[c].cells |->
                              AsDtype(sheet[c].cells[i], dt)]]],
     nrows |-> r]

Ok(v) == [ok |-> TRUE, value |-> Some(v), error |-> "none"]
Raise(e) == [ok |-> FALSE, value |-> None, error |-> e]

\* pd.read_csv: bytes that hold no column raise EmptyDataError.
ReadCsv(file) ==
    IF ~file.readable THEN Raise("ParserError")
    ELSE IF file.sheet = <<>> THEN Raise("EmptyDataError")
    ELSE Ok(Frame(file.sheet, file.nrows))

\* pd.read_excel: an empty sheet is a DataFrame without rows or columns.
ReadExcel(file) ==
    IF ~file.readable THEN Raise("ParserError")
    ELSE Ok(Frame(file.sheet, file.nrows))

ReadFile(file) ==
    IF file.ext = "csv" THEN ReadCsv(file) ELSE ReadExcel(file)

\* --------------------------------------------------------- analyze_data
ColumnNames(df) == [c \in DOMAIN df.columns |-> df.columns[c].name]

\* df.select_dtypes(include=dtypes).columns.tolist()
SelectDtypes(df, dtypes) ==
    LET keep == [c \in DOMAIN df.columns |-> df.columns[c].dtype \in dtypes]
        idx == SelectIdx(keep, 1, Len(df.columns))
    IN [j \in DOMAIN idx |-> df.columns[idx[j]].name]

\* df.isnull().sum(): per column, the number of missing cells
MissingValues(df) ==
    [c \in DOMAIN df.columns |->
        [col |-> df.columns[c].name,
         missing |-> Cardinality({i \in DOMAIN df.columns[c].cells :
                                    df.columns[c].cells[i].k = "nan"})]]

\* df.describe(): per numeric column its count, min and max (the mean, the
\* standard deviation and the quartiles are floating-point values no
\* property here reads; they are left out).
Describe(df) ==
    LET keep == [c \in DOMAIN df.columns |-> df.columns[c].dtype \in NumberDtypes]
        idx == SelectIdx(keep, 1, Len(df.columns))
    IN [j \in DOMAIN idx |->
          LET cells == df.columns[idx[j]].cells
              vals == {cells[i].n : i \in {k \in DOMAIN cells : cells[k].k # "nan"}}
              present == {i \in DOMAIN cells : cells[i].k # "nan"}
          IN [col |-> df.columns[idx[j]].name,
              count |-> Cardinality(present),
              min |-> IF vals = {} THEN None
                      ELSE Some(CHOOSE v \in vals : \A w \in vals : v <= w),
              max |-> IF vals = {} THEN None
                      ELSE Some(CHOOSE v \in vals : \A w \in vals : v >= w)]]

NumericColumns(df) == SelectDtypes(df, NumberDtypes)

CategoricalColumns(df) == SelectDtypes(df, {"object"})

analyze_data(df) ==
    [total_rows |-> df.nrows,
     total_columns |-> Len(df.columns),
     numeric_columns |-> NumericColumns(df),
     categorical_columns |-> CategoricalColumns(df),
     missing_values |-> MissingValues(df),
     summary_stats |-> IF Len(SelectDtypes(df, NumberDtypes)) > 0
                       THEN Describe(df) ELSE <<>>]

\* ------------------------------------------------ create_visualizations
\* plotly express builds its frame from the arguments in turn and raises
\* ValueError ("All arguments should have the same length") when a column
\* named by y is not as long as the array given for x.
PxSameLength(xlen, ylen) == xlen = ylen

\* px.bar(df, x=df.index[:10], y=col): x holds the first BarRows index
\* values, y names a column of the whole df.
BarChart(df, col) ==
    IF PxSameLength(Min(BarRows, df.nrows), df.nrows)
    THEN Ok([kind |-> "bar", col |-> col, points |-> df.nrows])
    ELSE Raise("ValueError")

\* px.line(df[:20], x=df.index[:20], y=col): both cut to LineRows rows.
LineChart(df, col) ==
    IF PxSameLength(Min(LineRows, df.nrows), Min(LineRows, df.nrows))
    THEN Ok([kind |-> "line", col |-> col, points |-> Min(LineRows, df.nrows)])
    ELSE Raise("ValueError")

\* renderer_ok: whether fig.to_image (the image export engine) works.
create_visualizations(df, numeric_cols, renderer_ok) ==
    IF Len(numeric_cols) > 0
    THEN LET bar == BarChart(df, numeric_cols[1])
         IN IF ~bar.ok THEN Raise(bar.error)
            ELSE IF ~renderer_ok THEN Raise("LibraryError")
            ELSE IF Len(numeric_cols) >= 2
            THEN LET line == LineChart(df, numeric_cols[2])
                 IN IF ~line.ok THEN Raise(line.error)
                    ELSE Ok(<<bar.value[1], line.value[1]>>)
            ELSE Ok(<<bar.value[1]>>)
    ELSE Ok(<<>>)

\* -------------------------------------------------- generate_pdf_report
\* f"{v:.2f}" of a describe() value (a float, NaN when the column is empty)
Fmt2(v) == IF v = None THEN "nan" ELSE IntStr(v[1]) \o ".00"

\* The 2-column table of one column's statistics.
StatsData(st) ==
    <<  <<"count", Fmt2(Some(st.count))>>,
        <<"min", Fmt2(st.min)>>,
        <<"max", Fmt2(st.max)>>  >>

\* df.head(10).values.tolist(): the rows of the first PreviewRows rows.  The
\* values array has one dtype for the whole frame: float64 when the columns
\* are int64 and float64 mixed (ints become floats), else the cells as held.
ValuesToList(df) ==
    LET dts == {df.columns[c].dtype : c \in DOMAIN df.columns}
        common == IF dts \subseteq NumberDtypes /\ "float64" \in dts
                  THEN "float64" ELSE "object"
    IN [i \in 1..Min(PreviewRows, df.nrows) |->
          [c \in DOMAIN df.columns |-> AsDtype(df.columns[c].cells[i], common)]]

\* Mutant of Truncate: the cut text without the "..." marker.
TruncateNoEllipsis(text) ==
    IF Len(text) > TruncLimit THEN SubSeq(text, 1, TruncLimit) ELSE text

\* str(cell)[:20] + '...' if len(str(cell)) > 20 else str(cell)
Truncate(text) ==
    IF Len(text) > TruncLimit THEN SubSeq(text, 1, TruncLimit) \o "..." ELSE text

\* preview_data: the header and the body rows, every cell truncated
PreviewData(df) ==
    LET body == ValuesToList(df)
    IN <<[c \in DOMAIN df.columns |-> Truncate(df.columns[c].name)]>>
       \o [i \in DOMAIN body |->
             [c \in DOMAIN body[i] |-> Truncate(Str(body[i][c]))]]

\* letter[0] / len(df.columns) - 20 per column, as the exact fraction num/den
ColWidths(df) ==
    [c \in DOMAIN df.columns |->
        [num |-> PageWidth - ColPad * Len(df.columns), den |-> Len(df.columns)]]

\* reportlab's Table raises ValueError for data without a row or a column.
TableOk(data) == Len(data) > 0 /\ \E i \in DOMAIN data : Len(data[i]) > 0

ColumnInfo(names) == IF names # <<>> THEN Join(", ", names) ELSE "None"

\* build_ok: whether doc.build can lay the elements out and write the buffer.
generate_pdf_report(df, analysis, charts, build_ok) ==
    LET summary_data ==
            <<  <<"Total Records", IntStr(analysis.total_rows)>>,
                <<"Total Columns", IntStr(analysis.total_columns)>>,
                <<"Numeric Columns", IntStr(Len(analysis.numeric_columns))>>,
                <<"Categorical Columns", IntStr(Len(analysis.categorical_columns))>>  >>
        shown == SubSeq(analysis.summary_stats, 1,
                        Min(StatsCols, Len(analysis.summary_stats)))
        stats == [j \in DOMAIN shown |->
                     [col |-> shown[j].col, data |-> StatsData(shown[j])]]
        preview_data == PreviewData(df)
        doc == [sections |->
                    <<"title", "summary", "column_info">>
                    \o (IF analysis.summary_stats # <<>> THEN <<"statistics">> ELSE <<>>)
                    \o <<"preview">>
                    \o (IF charts # <<>> THEN <<"visualizations">> ELSE <<>>),
                summary |-> summary_data,
                numeric_info |-> ColumnInfo(analysis.numeric_columns),
                categorical_info |-> ColumnInfo(analysis.categorical_columns),
                stats |-> stats,
                preview |-> preview_data,
                col_widths |-> ColWidths(df),
                images |-> charts]
    IN IF ~TableOk(preview_data) THEN Raise("ValueError")
       ELSE IF ~build_ok THEN Raise("LibraryError")
       ELSE Ok(doc)

\* ------------------------------------------------------ the script's state
VARIABLES
    pc,              \* where the running script is; "idle" between runs
    uploaded_file,   \* None or Some(file): the file uploader's value
    clicked,         \* what st.button returns in this run
    df,              \* None or Some(DataFrame)
    analysis,        \* None or Some(analyze_data's dict)
    charts,          \* None or Some(create_visualizations' list)
    pdf_buffer,      \* None or Some(generate_pdf_report's document)
    stages,          \* the stages called in this run, in call order
    error,           \* the exception raised in this run, "none" if none
    button_shown,    \* the Generate PDF Report button is on the page
    error_shown,     \* st.error's message is on the page
    download         \* None or Some(document): the download button's data

vars == <<pc, uploaded_file, clicked, df, analysis, charts, pdf_buffer, stages,
          error, button_shown, error_shown, download>>

Init ==
    /\ pc = "idle"
    /\ uploaded_file = None
    /\ clicked = FALSE
    /\ df = None
    /\ analysis = None
    /\ charts = None
    /\ pdf_buffer = None
    /\ stages = <<>>
    /\ error = "none"
    /\ button_shown = FALSE
    /\ error_shown = FALSE
    /\ download = None

\* A rerun of the script from its first line: its locals are unset and the
\* page is empty again.
StartRun(file, click) ==
    /\ uploaded_file' = file
    /\ clicked' = click
    /\ df' = None
    /\ analysis' = None
    /\ charts' = None
    /\ pdf_buffer' = None
    /\ stages' = <<>>
    /\ error' = "none"
    /\ button_shown' = FALSE
    /\ error_shown' = FALSE
    /\ download' = None
    /\ pc' = IF file = None THEN "idle" ELSE "read"

\* The user picks a file in the empty uploader (to replace a file the user
\* removes it first; either way the run starts from the new file alone).
Upload ==
    /\ pc = "idle"
    /\ uploaded_file = None
    /\ \E f \in Files : StartRun(Some(f), FALSE)

\* The user removes the file: the run shows the instructions.
RemoveFile ==
    /\ pc = "idle"
    /\ uploaded_file # None
    /\ StartRun(None, FALSE)

\* The user clicks Generate PDF Report, which the last run put on the page.
ClickGenerate ==
    /\ pc = "idle"
    /\ button_shown
    /\ StartRun(uploaded_file, TRUE)

\* The user clicks the download button: a rerun in which st.button is False.
ClickDownload ==
    /\ pc = "idle"
    /\ download # None
    /\ StartRun(uploaded_file, FALSE)

\* pd.read_csv / pd.read_excel and the success message
ReadStep ==
    /\ pc = "read"
    /\ LET r == ReadFile(uploaded_file[1])
       IN /\ stages' = Append(stages, "read")
          /\ df' = r.value
          /\ error' = r.error
          /\ pc' = IF r.ok THEN "analyze" ELSE "except"
    /\ UNCHANGED <<uploaded_file, clicked, analysis, charts, pdf_buffer,
                   button_shown, error_shown, download>>

\* analysis = analyze_data(df); lib_ok: pandas raises nothing of its own
AnalyzeStep ==
    /\ pc = "analyze"
    /\ \E lib_ok \in BOOLEAN :
         LET r == IF lib_ok THEN Ok(analyze_data(df[1])) ELSE Raise("LibraryError")
         IN /\ stages' = Append(stages, "analyze")
            /\ analysis' = r.value
            /\ error' = r.error
            /\ pc' = IF r.ok THEN "button" ELSE "except"
    /\ UNCHANGED <<uploaded_file, clicked, df, charts, pdf_buffer,
                   button_shown, error_shown, download>>

\* Mutant of ButtonStep: the button's body runs whether or not it was clicked.
ButtonStepNoClick ==
    /\ pc = "button"
    /\ button_shown' = TRUE
    /\ pc' = "charts"
    /\ UNCHANGED <<uploaded_file, clicked, df, analysis, charts, pdf_buffer,
                   stages, error, error_shown, download>>

\* if st.button(...): the button is drawn, and its body runs after a click
ButtonStep ==
    /\ pc = "button"
    /\ button_shown' = TRUE
    /\ pc' = IF clicked THEN "charts" ELSE "idle"
    /\ UNCHANGED <<uploaded_file, clicked, df, analysis, charts, pdf_buffer,
                   stages, error, error_shown, download>>

\* Mutant of ChartsStep: a failure of create_visualizations is caught in
\* place and the run goes on to the document with no charts.
ChartsStepSwallow ==
    /\ pc = "charts"
    /\ \E renderer_ok \in BOOLEAN :
         LET r == create_visualizations(df[1], analysis[1].numeric_columns,
                                        renderer_ok)
         IN /\ stages' = Append(stages, "charts")
            /\ charts' = IF r.ok THEN r.value ELSE Some(<<>>)
            /\ error' = r.error
            /\ pc' = "pdf"
    /\ UNCHANGED <<uploaded_file, clicked, df, analysis, pdf_buffer,
                   button_shown, error_shown, download>>

\* Mutant of ChartsStep: the table is cut to the bar chart's rows in place.
ChartsStepInPlace ==
    /\ pc = "charts"
    /\ \E renderer_ok \in BOOLEAN :
         LET r == create_visualizations(df[1], analysis[1].numeric_columns,
                                        renderer_ok)
         IN /\ stages' = Append(stages, "charts")
            /\ charts' = IF r.ok THEN r.value ELSE None
            /\ error' = r.error
            /\ pc' = IF r.ok THEN "pdf" ELSE "except"
    /\ df' = Some([columns |->
                      [c \in DOMAIN df[1].columns |->
                          [df[1].columns[c] EXCEPT
                              !.cells = SubSeq(@, 1, Min(BarRows, df[1].nrows))]],
                   nrows |-> Min(BarRows, df[1].nrows)])
    /\ UNCHANGED <<uploaded_file, clicked, analysis, pdf_buffer,
                   button_shown, error_shown, download>>

\* charts = create_visualizations(df, analysis['numeric_columns'])
ChartsStep ==
    /\ pc = "charts"
    /\ \E renderer_ok \in BOOLEAN :
         LET r == create_visualizations(df[1], analysis[1].numeric_columns,
                                        renderer_ok)
         IN /\ stages' = Append(stages, "charts")
            /\ charts' = IF r.ok THEN r.value ELSE None
            /\ error' = r.error
            /\ pc' = IF r.ok THEN "pdf" ELSE "except"
    /\ UNCHANGED <<uploaded_file, clicked, df, analysis, pdf_buffer,
                   button_shown, error_shown, download>>

\* Mutant of PdfStep: when the build fails, the buffer as far as it was laid
\* out is still handed to the download button.
PdfStepPartial ==
    /\ pc = "pdf"
    /\ \E build_ok \in BOOLEAN :
         LET r == generate_pdf_report(df[1], analysis[1], charts[1], build_ok)
             laid == generate_pdf_report(df[1], analysis[1], charts[1], TRUE)
         IN /\ stages' = Append(stages, "pdf")
            /\ pdf_buffer' = r.value
            /\ download' = laid.value
            /\ error' = r.error
            /\ pc' = IF r.ok THEN "idle" ELSE "except"
    /\ UNCHANGED <<uploaded_file, clicked, df, analysis, charts,
                   button_shown, error_shown>>

\* pdf_buffer = generate_pdf_report(df, analysis, charts), then the
\* download button with the buffer as its data
PdfStep ==
    /\ pc = "pdf"
    /\ \E build_ok \in BOOLEAN :
         LET r == generate_pdf_report(df[1], analysis[1], charts[1], build_ok)
         IN /\ stages' = Append(stages, "pdf")
            /\ pdf_buffer' = r.value
            /\ download' = r.value
            /\ error' = r.error
            /\ pc' = IF r.ok THEN "idle" ELSE "except"
    /\ UNCHANGED <<uploaded_file, clicked, df, analysis, charts,
                   button_shown, error_shown>>

\* except Exception as e: st.error(...)
ExceptStep ==
    /\ pc = "except"
    /\ error_shown' = TRUE
    /\ pc' = "idle"
    /\ UNCHANGED <<uploaded_file, clicked, df, analysis, charts, pdf_buffer,
                   stages, error, button_shown, download>>

Next ==
    \/ Upload
    \/ RemoveFile
    \/ ClickGenerate
    \/ ClickDownload
    \/ ReadStep
    \/ AnalyzeStep
    \/ ButtonStep
    \/ ChartsStep
    \/ PdfStep
    \/ ExceptStep

Spec == Init /\ [][Next]_vars

\* ------------------------------------------------------------ properties
StageOrder == <<"read", "analyze", "charts", "pdf">>

IsPrefix(s, t) == Len(s) <= Len(t) /\ SubSeq(t, 1, Len(s)) = s

Range(s) == {s[i] : i \in DOMAIN s}

LastStage == IF stages = <<>> THEN "none" ELSE stages[Len(stages)]

RECURSIVE SumNum(_)
SumNum(ws) == IF ws = <<>> THEN 0 ELSE ws[1].num + SumNum(Tail(ws))

\* C1: the numeric-column list and the categorical-column list of
\* analyze_data are disjoint and together hold every column name of the
\* table.
C1_Partition ==
    analysis # None =>
        /\ Range(analysis[1].numeric_columns)
             \cap Range(analysis[1].categorical_columns) = {}
        /\ Range(analysis[1].numeric_columns)
             \cup Range(analysis[1].categorical_columns) = Range(ColumnNames(df[1]))

\* C2: a document is offered for download only when create_visualizations
\* and generate_pdf_report both completed without error in this run, and it
\* is then the whole document; after a failure nothing is offered.
C2_AllOrNothing ==
    /\ download # None =>
          /\ error = "none"
          /\ stages = StageOrder
          /\ charts # None
          /\ pdf_buffer # None
          /\ download = pdf_buffer
          /\ download[1].images = charts[1]
          /\ Len(download[1].preview) = 1 + Min(PreviewRows, df[1].nrows)
    /\ error # "none" => download = None

C2_Witness ==
    /\ download # None
    /\ Len(charts[1]) = 2

\* C3: an error raised in a stage stops the run at that stage: the stage
\* was called once, no later stage is called or leaves a result, and the run
\* ends with the error message on the page and no document.
C3_ErrorPropagates ==
    /\ error # "none" =>
          /\ pc \in {"except", "idle"}
          /\ pc = "idle" => error_shown
          /\ IsPrefix(stages, StageOrder)
          /\ LastStage = "read" => df = None
          /\ LastStage \in {"read", "analyze"} => analysis = None
          /\ LastStage \in {"read", "analyze", "charts"} => charts = None
          /\ pdf_buffer = None
          /\ download = None
    /\ error_shown => error # "none"
    /\ pc = "except" => error # "none"

C3_Witness ==
    /\ error_shown
    /\ LastStage = "charts"
    /\ error = "LibraryError"

\* C4: create_visualizations returns no chart for no numeric column, the bar
\* chart of the first for one, and the bar chart of the first then the line
\* chart of the second for two or more (an image engine that does not work
\* set aside).
C4_ChartCount ==
    (LastStage = "charts" /\ error # "LibraryError") =>
        /\ error = "none"
        /\ charts # None
        /\ LET cols == analysis[1].numeric_columns
           IN /\ Len(charts[1]) = Min(2, Len(cols))
              /\ Len(cols) >= 1 =>
                    charts[1][1].kind = "bar" /\ charts[1][1].col = cols[1]
              /\ Len(cols) >= 2 =>
                    charts[1][2].kind = "line" /\ charts[1][2].col = cols[2]

\* C5: with no numeric column and no chart, generate_pdf_report returns a
\* document showing "None" for the numeric columns, without a statistics
\* section and without a visualization section (a document build that
\* cannot write set aside).
C5_NoNumericNoCharts ==
    (/\ LastStage = "pdf"
     /\ analysis[1].numeric_columns = <<>>
     /\ charts[1] = <<>>
     /\ error # "LibraryError") =>
        /\ error = "none"
        /\ pdf_buffer # None
        /\ pdf_buffer[1].numeric_info = "None"
        /\ "statistics" \notin Range(pdf_buffer[1].sections)
        /\ "visualizations" \notin Range(pdf_buffer[1].sections)

\* C6: a parsed table without rows or without columns ends in an error:
\* it is never analysed and never yields a document.
C6_EmptyDataset ==
    (df # None /\ (df[1].nrows = 0 \/ df[1].columns = <<>>)) =>
        /\ analysis = None
        /\ download = None
        /\ pc = "idle" => error_shown

\* The text of the cell of row i, column c of the table.
CellText(i, c) == Str(df[1].columns[c].cells[i])

\* The text of that cell in the row list df.head(10).values.tolist() gives.
ListedText(i, c) == Str(ValuesToList(df[1])[i][c])

Shortened(t) ==
    IF Len(t) > TruncLimit THEN SubSeq(t, 1, TruncLimit) \o "..." ELSE t

\* C7 as stated: the preview's header row is the column names; it is
\* followed by min(10, rows) body rows in source order, each cell the text of
\* the table's cell, cut to 20 characters plus "..." when longer.
C7_PreviewAsStated ==
    download # None =>
        LET pv == download[1].preview
        IN /\ Len(pv) = 1 + Min(PreviewRows, df[1].nrows)
           /\ pv[1] = ColumnNames(df[1])
           /\ \A i \in 1..Min(PreviewRows, df[1].nrows) :
                \A c \in DOMAIN df[1].columns :
                    pv[i + 1][c] = Shortened(CellText(i, c))

\* C7 as amended: the header cells are the column names cut by the same
\* rule, and a body cell is the cut text of the value as the row list holds
\* it (in a frame of int and float columns only, an int is listed as a float).
C7_Preview ==
    download # None =>
        LET pv == download[1].preview
        IN /\ Len(pv) = 1 + Min(PreviewRows, df[1].nrows)
           /\ \A c \in DOMAIN df[1].columns :
                pv[1][c] = Shortened(df[1].columns[c].name)
           /\ \A i \in 1..Min(PreviewRows, df[1].nrows) :
                \A c \in DOMAIN df[1].columns :
                    /\ pv[i + 1][c] = Shortened(ListedText(i, c))
                    /\ Len(ListedText(i, c)) <= TruncLimit =>
                          pv[i + 1][c] = ListedText(i, c)
                    /\ Len(ListedText(i, c)) > TruncLimit =>
                          Len(pv[i + 1][c]) = TruncLimit + 3

C7_Witness ==
    /\ download # None
    /\ df[1].nrows > PreviewRows
    /\ \E c \in DOMAIN df[1].columns : Len(df[1].columns[c].name) > TruncLimit
    /\ \E c \in DOMAIN df[1].columns : Len(CellText(2, c)) > TruncLimit
    /\ \E c \in DOMAIN df[1].columns : Len(CellText(2, c)) = TruncLimit

\* C8: for a table with at least one column the preview's column widths are
\* all equal and sum to the printable width (page width less both margins).
C8_WidthsFillPrintable ==
    (download # None /\ Len(df[1].columns) >= 1) =>
        LET ws == download[1].col_widths
        IN /\ Len(ws) = Len(df[1].columns)
           /\ \A c \in DOMAIN ws : ws[c] = ws[1]
           /\ SumNum(ws) = (PageWidth - LeftMargin - RightMargin) * ws[1].den

\* C9: no stage changes what an earlier stage produced, and no stage runs
\* while a later stage's result exists.
C9_OneWay ==
    /\ [](/\ pc = "analyze" => (analysis = None /\ charts = None /\ pdf_buffer = None)
          /\ pc = "charts" => (charts = None /\ pdf_buffer = None)
          /\ pc = "pdf" => pdf_buffer = None)
    /\ [][/\ pc = "analyze" => df' = df
          /\ pc = "charts" => (df' = df /\ analysis' = analysis)
          /\ pc = "pdf" => (df' = df /\ analysis' = analysis /\ charts' = charts)]_vars

C9_Witness ==
    /\ LastStage = "pdf"
    /\ pdf_buffer # None
    /\ df[1].nrows > BarRows
    /\ Len(charts[1]) = 0

\* C10: the stages of a run are called in the order read, analyze, charts,
\* pdf, each at most once; charts and pdf only in a run started by a click on
\* the button, after read and analyze succeeded; pdf only after charts
\* returned.
C10_StageOrder ==
    /\ IsPrefix(stages, StageOrder)
    /\ pc \in {"charts", "pdf"} => clicked
    /\ "charts" \in Range(stages) =>
          /\ clicked
          /\ df # None
          /\ analysis # None
    /\ pc = "charts" => (df # None /\ analysis # None)
    /\ (pc = "pdf" \/ "pdf" \in Range(stages)) => charts # None

C10_Witness ==
    /\ stages = StageOrder
    /\ clicked
    /\ pc = "idle"

====
